---- MODULE Spec2Model ----
(***************************************************************************)
(* Model of the iRON dashboard server (src/app.py).                        *)
(*                                                                         *)
(* The server is one Shiny session: three parameter inputs (station,       *)
(* vars, date_range), the reactive calcs url -> weather_data ->            *)
(* parsed_data, the two renders weather_plot and variable_data_output,     *)
(* and the feedback effect submit_feedback_issue.  One thread runs all of  *)
(* it; requests.get and requests.post block that thread.                   *)
(*                                                                         *)
(* Spec is the session as a whole.  SpecLive is the session with the       *)
(* progress the code guarantees.  SpecMerge runs the table's merge and     *)
(* SpecPure runs get_vars_str, parsed_data and weather_plot on inputs of   *)
(* their own, wider than one session's responses.                          *)
(*                                                                         *)
(* Strings are modelled as sequences of tokens (a variable name, a comma,  *)
(* a blank, a word), so that join/split/strip are computed, not assumed.   *)
(* All dates lie in 2025: a date is the integer MMDD, and a timestamp and  *)
(* the strftime image of a date are the integer MMDDhhmm.                  *)
(***************************************************************************)
EXTENDS Integers, Sequences, FiniteSets, TLC

(***************************************************************************)
(* Bounds of the model.                                                    *)
(***************************************************************************)
MaxPoints == 2      \* longest date_time array in a modelled API response
MaxSeries == 2      \* longest TimeSeries handed to the merge on its own
MaxVars == 3        \* variables selectable when the pure stages run on their own

(***************************************************************************)
(* Program constants.                                                      *)
(***************************************************************************)
NaT == 0 - 1        \* pandas missing-timestamp marker (errors="coerce")
NaN == 0 - 2        \* pandas missing-value marker (how="outer")
HTTP_OK == 200
HTTP_CREATED == 201
DefaultVar == "air_temp"
IssueTitle == "User Feedback from Shiny App"
syn_token == "syn_token"

(***************************************************************************)
(* State.                                                                  *)
(***************************************************************************)
VARIABLES
    station,            \* input.station()
    vars,               \* input.vars()
    date_range,         \* input.date_range()
    feedback_text,      \* input.feedback_text()
    url_c,              \* reactive.calc url: [valid, usesVars, value]
    wd_c,               \* reactive.calc weather_data: [valid, value, req, resp]
    pd_c,               \* reactive.calc parsed_data: [valid, value, src, names]
    plot_out,           \* output weather_plot: [valid, value, src, names]
    table_out,          \* output variable_data_output: [valid, value, src, names]
    status_out,         \* output feedback_status_output: [valid, value]
    feedback_status,    \* reactive.Value feedback_status
    button_disabled,    \* the submit_feedback button as the client shows it
    pc,                 \* the server thread: "idle", "get", "hung" (in a GET
                        \* for ever), "post" or "post_hung" (in a POST for ever)
    caller,             \* the render that is waiting in requests.get
    waiting,            \* whether client messages wait for the busy thread
    getsSinceChange,    \* history: GETs issued since the parameters last changed
    inflight,           \* history: weather GETs entered and not yet returned
    attempt,            \* history: the submit being handled, [active, text]
    posted,             \* history: payloads posted by that submit
    outcome,            \* history: how its requests.post ended
    m_a,                \* merge on its own: the first TimeSeries, as a frame
    m_b,                \* merge on its own: the second TimeSeries, as a frame
    m_ab,               \* merge on its own: the table merged in the order [A, B]
    m_ba,               \* merge on its own: the table merged in the order [B, A]
    m_pc,               \* merge on its own: "off", "ready" or "merged"
    h_vars,             \* pure stages on their own: input.vars()
    h_obs,              \* pure stages on their own: OBSERVATIONS of the response
    h_str,              \* pure stages on their own: what get_vars_str returned
    h_parsed,           \* pure stages on their own: what parsed_data returned
    h_plot,             \* pure stages on their own: what weather_plot returned
    h_pc                \* pure stages on their own: "off", "ready" ... "selected"

(***************************************************************************)
(* Generic helpers.                                                        *)
(***************************************************************************)
Range(s) == {s[i] : i \in 1..Len(s)}

SeqsUpTo(S, n) == UNION {[1..k -> S] : k \in 0..n}

RECURSIVE Flatten(_)
Flatten(ss) == IF ss = <<>> THEN <<>> ELSE Head(ss) \o Flatten(Tail(ss))

(***************************************************************************)
(* get_vars_str: the selected variables as one comma-separated string.     *)
(* A variable name is one token; "," is a token of its own.                *)
(***************************************************************************)
RECURSIVE JoinComma(_)
JoinComma(names) ==
    IF names = <<>> THEN <<>>
    ELSE IF Len(names) = 1 THEN <<names[1]>>
    ELSE <<names[1], ",">> \o JoinComma(Tail(names))

get_vars_strNoDefault(raw_vars) == JoinComma(raw_vars)

get_vars_str(raw_vars) ==
    IF raw_vars = <<>> THEN <<DefaultVar>> ELSE JoinComma(raw_vars)

(* str.split(","): the chunks between commas; each chunk is a token string *)
RECURSIVE SplitChunks(_, _)
SplitChunks(str, cur) ==
    IF str = <<>> THEN <<cur>>
    ELSE IF Head(str) = "," THEN <<cur>> \o SplitChunks(Tail(str), <<>>)
    ELSE SplitChunks(Tail(str), Append(cur, Head(str)))

(* a chunk read back as a name: the empty chunk is the empty name "" *)
RECURSIVE ChunkName(_)
ChunkName(chunk) ==
    IF chunk = <<>> THEN "" ELSE Head(chunk) \o ChunkName(Tail(chunk))

SplitComma(str) ==
    LET chunks == SplitChunks(str, <<>>)
    IN  [i \in 1..Len(chunks) |-> ChunkName(chunks[i])]

VariableKey(var_name) == var_name \o "_set_1"

(***************************************************************************)
(* url: validation of the parameters and construction of the request URL.  *)
(* A range endpoint is [kind, v]: kind "date" (has strftime), "none"       *)
(* (Python None) or "str" (an object without strftime).  date_range is     *)
(* [present, ends]: present = FALSE is None.                               *)
(***************************************************************************)
Strftime(d) == d * 10000          \* %Y%m%d%H%M of a date: hh = mm = 00

FormatEndpoint(e) == IF e.kind = "date" THEN <<Strftime(e.v)>> ELSE <<>>

UrlRejectsIgnoresStation(dr, st) ==
    \/ ~dr.present
    \/ dr.ends = <<>>
    \/ Len(dr.ends) # 2
    \/ \E i \in 1..Len(dr.ends) : dr.ends[i].kind = "none"

UrlRejects(dr, st) ==
    \/ ~dr.present
    \/ dr.ends = <<>>
    \/ Len(dr.ends) # 2
    \/ \E i \in 1..Len(dr.ends) : dr.ends[i].kind = "none"
    \/ st = ""

urlReadsHistory(dr, st, raw_vars) ==
    IF UrlRejects(dr, st)
    THEN [value |-> <<>>, usesVars |-> FALSE]
    ELSE LET formatted_start == FormatEndpoint(dr.ends[1])
             formatted_end == FormatEndpoint(dr.ends[2])
         IN  IF formatted_start = <<>> \/ formatted_end = <<>>
             THEN [value |-> <<>>, usesVars |-> FALSE]
             ELSE [value |-> <<"stid=", st, "&start=", formatted_start[1],
                               "&end=", formatted_end[1], "&vars=">>
                             \o get_vars_str(raw_vars)
                             \o <<"&token=",
                                  IF getsSinceChange = 0 THEN syn_token ELSE "stale">>,
                   usesVars |-> TRUE]

url(dr, st, raw_vars) ==
    IF UrlRejects(dr, st)
    THEN [value |-> <<>>, usesVars |-> FALSE]
    ELSE LET formatted_start == FormatEndpoint(dr.ends[1])
             formatted_end == FormatEndpoint(dr.ends[2])
         IN  IF formatted_start = <<>> \/ formatted_end = <<>>
             THEN [value |-> <<>>, usesVars |-> FALSE]
             ELSE [value |-> <<"stid=", st, "&start=", formatted_start[1],
                               "&end=", formatted_end[1], "&vars=">>
                             \o get_vars_str(raw_vars)
                             \o <<"&token=", syn_token>>,
                   usesVars |-> TRUE]

(***************************************************************************)
(* The weather API as the server sees it.  A response is                   *)
(* [transport, status, isJson, body]; body is the decoded JSON document    *)
(* [testable, hasError, hasStation, stationIsList, stations].  testable    *)
(* is false when the test of STATION raises TypeError: the body is a       *)
(* number, null or a boolean, or a string or an array that holds           *)
(* "STATION".  hasStation is false when '"STATION" not in data' is true:   *)
(* an object without the key, or a string or an array that does not hold   *)
(* "STATION".  hasError tells whether the document carries a top-level     *)
(* "Error" key of its own.  An element of STATION is                       *)
(* [isObject, obsKind, obs]: isObject is false for null, a number, a       *)
(* string or a list; obsKind is "absent" (no OBSERVATIONS key), "object"   *)
(* (a dict, given by obs), "null" (null, or another falsy value that is no *)
(* dict), "list" (a non-empty list or string; the domain of obs.series is  *)
(* the set of keys k for which 'k in observations' is true) or "number"    *)
(* (a non-zero number or true).  An                                        *)
(* OBSERVATIONS dict is [hasDateTime, date_time, series] where series maps *)
(* each present "<v>_set_1" key to its array.  transport is "ok",          *)
(* "error" (requests.get raised a RequestException) or "raises" (it        *)
(* raised another exception).                                              *)
(***************************************************************************)
Stations == {"", "RFBRC"}

VarNames == {"air_temp", "soil_moisture"}

VarLists ==
    {<<>>, <<"air_temp">>, <<"air_temp", "soil_moisture">>,
     <<"soil_moisture", "air_temp">>}

(* the sets of variables an observation block may report *)
ReportedSets == {{}, {"air_temp"}, {"air_temp", "soil_moisture"}}

DateEnd(d) == [kind |-> "date", v |-> d]
NoneEnd == [kind |-> "none", v |-> 0]
StrEnd == [kind |-> "str", v |-> 0]

DateRanges ==
    {[present |-> FALSE, ends |-> <<>>],
     [present |-> TRUE, ends |-> <<DateEnd(206)>>],
     [present |-> TRUE, ends |-> <<DateEnd(206), DateEnd(207)>>],
     [present |-> TRUE, ends |-> <<DateEnd(207), DateEnd(206)>>],
     [present |-> TRUE, ends |-> <<NoneEnd, DateEnd(207)>>],
     [present |-> TRUE, ends |-> <<DateEnd(206), NoneEnd>>],
     [present |-> TRUE, ends |-> <<StrEnd, DateEnd(207)>>]}

RawTimes == {"2025-02-06T00:00:00Z", "2025-02-06T01:00:00Z", "not-a-date"}

(* what pandas reads in an ISO8601 string: a timestamp, or nothing *)
ParseTime(s) ==
    CASE s = "2025-02-06T00:00:00Z" -> 2060000
      [] s = "2025-02-06T01:00:00Z" -> 2060100
      [] OTHER -> NaT

(* the numbers the API reports for a key: aligned with date_time by index *)
ObsArray(key, n) ==
    [i \in 1..n |-> (IF key = "air_temp_set_1" THEN 10 ELSE 20) + i]

EmptyObs == [hasDateTime |-> FALSE, date_time |-> <<>>, series |-> <<>>]

ObsBlocks ==
    {EmptyObs} \cup
    {[hasDateTime |-> TRUE, date_time |-> dt,
      series |-> [k \in {VariableKey(v) : v \in present} |-> ObsArray(k, Len(dt))]] :
        dt \in SeqsUpTo(RawTimes, MaxPoints), present \in ReportedSets}
    \cup
    {[hasDateTime |-> TRUE, date_time |-> <<"2025-02-06T00:00:00Z">>,
      series |-> [k \in {"air_temp_set_1"} |-> ObsArray(k, 2)]],
     [hasDateTime |-> TRUE, date_time |-> <<>>,
      series |-> [k \in {"air_temp_set_1"} |-> ObsArray(k, 2)]],
     [hasDateTime |-> FALSE, date_time |-> <<>>,
      series |-> [k \in {"air_temp_set_1", "soil_moisture_set_1"} |->
                    ObsArray(k, IF k = "air_temp_set_1" THEN 2 ELSE 1)]]}

EmptyDoc ==
    [testable |-> TRUE, hasError |-> FALSE, hasStation |-> FALSE,
     stationIsList |-> FALSE, stations |-> <<>>]

(* a body on which the test of STATION raises: 5, null, true, "STATION" *)
UntestableDoc == [EmptyDoc EXCEPT !.testable = FALSE]

StationDoc(els) ==
    [EmptyDoc EXCEPT !.hasStation = TRUE, !.stationIsList = TRUE, !.stations = els]

StationObject(o) == [isObject |-> TRUE, obsKind |-> "object", obs |-> o]

StationOther(kind) == [isObject |-> TRUE, obsKind |-> kind, obs |-> EmptyObs]

(* OBSERVATIONS is a non-empty list or string holding the keys in held *)
StationList(held) ==
    [isObject |-> TRUE, obsKind |-> "list",
     obs |-> [hasDateTime |-> FALSE, date_time |-> <<>>,
              series |-> [k \in held |-> <<>>]]]

StationNonObject == [isObject |-> FALSE, obsKind |-> "absent", obs |-> EmptyObs]

(* a well-formed block, used for the document that has an "Error" key too *)
OneHourObs ==
    [hasDateTime |-> TRUE, date_time |-> <<"2025-02-06T00:00:00Z">>,
     series |-> [k \in {"air_temp_set_1"} |-> ObsArray(k, 1)]]

Docs ==
    {EmptyDoc,
     UntestableDoc,
     [EmptyDoc EXCEPT !.hasStation = TRUE],
     StationDoc(<<>>),
     StationDoc(<<StationNonObject>>),
     StationDoc(<<StationOther("absent")>>),
     StationDoc(<<StationOther("null")>>),
     StationDoc(<<StationOther("number")>>),
     StationDoc(<<StationList({})>>),
     StationDoc(<<StationList({"air_temp_set_1"})>>),
     [StationDoc(<<StationObject(OneHourObs)>>) EXCEPT !.hasError = TRUE]}
    \cup
    {StationDoc(<<StationObject(o)>>) : o \in ObsBlocks}

Responses ==
    {[transport |-> "error", status |-> 0, isJson |-> FALSE, body |-> EmptyDoc],
     [transport |-> "raises", status |-> 0, isJson |-> FALSE, body |-> EmptyDoc],
     [transport |-> "ok", status |-> 500, isJson |-> FALSE, body |-> EmptyDoc],
     [transport |-> "ok", status |-> HTTP_OK, isJson |-> FALSE, body |-> EmptyDoc]}
    \cup
    {[transport |-> "ok", status |-> HTTP_OK, isJson |-> TRUE, body |-> d] : d \in Docs}

(***************************************************************************)
(* weather_data: what the calc returns for a request URL and the outcome   *)
(* of the GET.  The value is [raised, isErr, err, code, doc]: raised tells  *)
(* that an exception left the calc (err names it); otherwise isErr is      *)
(* what '"Error" in data' gives the readers, true of the dicts             *)
(* {"Error": ...} the calc builds and of a document that has the key.      *)
(***************************************************************************)
(* no GET was made: the value did not come from a response *)
NoReply == [transport |-> "none", status |-> 0, isJson |-> FALSE, body |-> EmptyDoc]

ErrorDict(msg, code) ==
    [raised |-> FALSE, isErr |-> TRUE, err |-> msg, code |-> code, doc |-> EmptyDoc]

(* an exception the except clause does not name leaves weather_data *)
DataRaised(exc) ==
    [raised |-> TRUE, isErr |-> FALSE, err |-> exc, code |-> 0, doc |-> EmptyDoc]

NoUrlData == ErrorDict("Invalid API URL.", 0)

weather_dataIgnoresStatus(resp) ==
    IF resp.transport = "raises" THEN DataRaised("ValueError")
    ELSE IF resp.transport # "ok" THEN ErrorDict("Error fetching API data", 0)
    ELSE IF ~resp.isJson THEN ErrorDict("Error fetching API data", 0)
    ELSE IF ~resp.body.testable THEN DataRaised("TypeError")
    ELSE IF ~resp.body.hasStation \/ ~resp.body.stationIsList
         THEN ErrorDict("Unexpected API response format.", 0)
    ELSE [raised |-> FALSE, isErr |-> resp.body.hasError, err |-> "", code |-> 0,
          doc |-> resp.body]

(* Only requests.exceptions.RequestException is caught: another exception   *)
(* out of requests.get leaves the calc.  A body that is not JSON makes      *)
(* response.json() raise requests.exceptions.JSONDecodeError, a            *)
(* RequestException.  On a number, null or a boolean                       *)
(* '"STATION" not in data' raises TypeError, and so does data["STATION"]   *)
(* on a string or an array that holds "STATION"; TypeError is not caught.  *)
(* A string or an array that does not hold "STATION" behaves as an object  *)
(* without the key.                                                        *)
weather_data(resp) ==
    IF resp.transport = "raises" THEN DataRaised("ValueError")
    ELSE IF resp.transport # "ok" THEN ErrorDict("Error fetching API data", 0)
    ELSE IF resp.status # HTTP_OK THEN ErrorDict("API Error", resp.status)
    ELSE IF ~resp.isJson THEN ErrorDict("Error fetching API data", 0)
    ELSE IF ~resp.body.testable THEN DataRaised("TypeError")
    ELSE IF ~resp.body.hasStation \/ ~resp.body.stationIsList
         THEN ErrorDict("Unexpected API response format.", 0)
    ELSE [raised |-> FALSE, isErr |-> resp.body.hasError, err |-> "", code |-> 0,
          doc |-> resp.body]

(***************************************************************************)
(* Data frames: [cols, rows]; a row maps each column name to a cell.       *)
(***************************************************************************)
EmptyDF == [cols |-> <<>>, rows |-> <<>>]

DfEmpty(df) == df.cols = <<>> \/ df.rows = <<>>

(* pd.to_datetime(..., errors="coerce"): unreadable entries become NaT *)
ToDatetimeCoerce(raw) == [i \in 1..Len(raw) |-> ParseTime(raw[i])]

(* pd.to_datetime(...): raises on an unreadable entry *)
ToDatetimeRaises(raw) == \E i \in 1..Len(raw) : ParseTime(raw[i]) = NaT

(* station_data.get("OBSERVATIONS", {}) of a station object whose          *)
(* OBSERVATIONS is a dict or absent                                        *)
Observations(doc) ==
    IF doc.stations[1].obsKind = "object" THEN doc.stations[1].obs ELSE EmptyObs

(* station_list[0].get and observations.get need dicts: on anything else   *)
(* the attribute lookup raises AttributeError                              *)
GetRaises(doc) ==
    \/ ~doc.stations[1].isObject
    \/ doc.stations[1].obsKind \in {"null", "list", "number"}

(* not station_data[0].get("OBSERVATIONS") is false: a non-empty dict *)
ObsTruthy(o) == o.hasDateTime \/ DOMAIN o.series # {}

DateTimeOf(o) == IF o.hasDateTime THEN o.date_time ELSE <<>>

(***************************************************************************)
(* parsed_data: the frame the chart is drawn from.  The result is          *)
(* [kind, df, usesVars]: kind "none" is Python None, "raised" an exception *)
(* leaving the calc, "df" a frame; usesVars tells whether input.vars was   *)
(* read (get_vars_str is reached only after the shape checks).             *)
(***************************************************************************)
AddColumnFront(cols, var_name) ==
    IF var_name \in Range(cols) THEN cols
    ELSE <<Head(cols), var_name>> \o Tail(cols)

(* df[var_name] = ...: a new column goes after the existing ones; an       *)
(* existing column keeps its place                                         *)
AddColumn(cols, var_name) ==
    IF var_name \in Range(cols) THEN cols ELSE Append(cols, var_name)

(* df[var_name] = values.  A frame without rows takes its index from a     *)
(* non-empty list: the columns it had are filled with NaT (Time) or NaN.   *)
(* A frame with rows, or an empty list, must agree in length, else pandas  *)
(* raises ValueError.                                                      *)
SetItem(df, var_name, values) ==
    IF df.rows = <<>> /\ values # <<>>
    THEN [raised |-> FALSE,
          df |-> [cols |-> AddColumn(df.cols, var_name),
                  rows |-> [i \in 1..Len(values) |->
                              [c \in Range(df.cols) \cup {var_name} |->
                                 IF c = var_name THEN values[i]
                                 ELSE IF c = "Time" THEN NaT ELSE NaN]]]]
    ELSE IF Len(values) # Len(df.rows)
    THEN [raised |-> TRUE, df |-> EmptyDF]
    ELSE [raised |-> FALSE,
          df |-> [cols |-> AddColumn(df.cols, var_name),
                  rows |-> [i \in 1..Len(df.rows) |->
                              [c \in DOMAIN df.rows[i] \cup {var_name} |->
                                 IF c = var_name THEN values[i]
                                 ELSE df.rows[i][c]]]]]

(* the loop over selected_vars: [raised, df] *)
RECURSIVE AssignColumns(_, _, _)
AssignColumns(df, names, o) ==
    IF names = <<>> THEN [raised |-> FALSE, df |-> df]
    ELSE LET var_name == Head(names)
             key == VariableKey(var_name)
         IN  IF key \in DOMAIN o.series
             THEN LET res == SetItem(df, var_name, o.series[key])
                  IN  IF res.raised THEN res
                      ELSE AssignColumns(res.df, Tail(names), o)
             ELSE AssignColumns(df, Tail(names), o)

parsed_data(data, raw_vars) ==
    IF data.raised THEN [kind |-> "raised", df |-> EmptyDF, usesVars |-> FALSE]
    ELSE IF data.isErr THEN [kind |-> "none", df |-> EmptyDF, usesVars |-> FALSE]
    ELSE IF data.doc.stations = <<>>
         THEN [kind |-> "none", df |-> EmptyDF, usesVars |-> FALSE]
    ELSE IF GetRaises(data.doc)
         THEN [kind |-> "raised", df |-> EmptyDF, usesVars |-> FALSE]
    ELSE LET observations == Observations(data.doc)
             raw == DateTimeOf(observations)
             selected_vars == SplitComma(get_vars_str(raw_vars))
             times == ToDatetimeCoerce(raw)
             df == [cols |-> <<"Time">>,
                    rows |-> [i \in 1..Len(times) |-> [c \in {"Time"} |-> times[i]]]]
         IN  IF ToDatetimeRaises(raw)
             THEN [kind |-> "raised", df |-> EmptyDF, usesVars |-> FALSE]
             ELSE LET assigned == AssignColumns(df, selected_vars, observations)
                  IN  IF assigned.raised
                      THEN [kind |-> "raised", df |-> EmptyDF, usesVars |-> TRUE]
                      ELSE [kind |-> "df", df |-> assigned.df, usesVars |-> TRUE]

(***************************************************************************)
(* weather_plot: what the chart shows.  [kind, msg, primary, secondary,    *)
(* df]: kind "text" is a figure holding only a message, "single" and       *)
(* "dual" are line plots, "exception" is an error leaving the render.      *)
(***************************************************************************)
PlotText(msg) ==
    [kind |-> "text", msg |-> msg, primary |-> "", secondary |-> "", df |-> EmptyDF]

weather_plotLastColumn(parsed) ==
    IF parsed.kind = "raised"
    THEN [kind |-> "exception", msg |-> "", primary |-> "", secondary |-> "",
          df |-> EmptyDF]
    ELSE IF parsed.kind = "none" \/ DfEmpty(parsed.df)
    THEN PlotText("No data available")
    ELSE LET selected_vars == SelectSeq(parsed.df.cols, LAMBDA c : c # "Time")
         IN  IF Len(selected_vars) = 0 THEN PlotText("No variables selected")
             ELSE IF Len(selected_vars) = 1
             THEN [kind |-> "single", msg |-> "", primary |-> selected_vars[1],
                   secondary |-> "", df |-> parsed.df]
             ELSE [kind |-> "dual", msg |-> "", primary |-> selected_vars[1],
                   secondary |-> selected_vars[Len(selected_vars)], df |-> parsed.df]

weather_plot(parsed) ==
    IF parsed.kind = "raised"
    THEN [kind |-> "exception", msg |-> "", primary |-> "", secondary |-> "",
          df |-> EmptyDF]
    ELSE IF parsed.kind = "none" \/ DfEmpty(parsed.df)
    THEN PlotText("No data available")
    ELSE LET selected_vars == SelectSeq(parsed.df.cols, LAMBDA c : c # "Time")
         IN  IF Len(selected_vars) = 0 THEN PlotText("No variables selected")
             ELSE IF Len(selected_vars) = 1
             THEN [kind |-> "single", msg |-> "", primary |-> selected_vars[1],
                   secondary |-> "", df |-> parsed.df]
             ELSE [kind |-> "dual", msg |-> "", primary |-> selected_vars[1],
                   secondary |-> selected_vars[2], df |-> parsed.df]

(***************************************************************************)
(* pd.merge(left, right, on="Time", how="outer").  The keys of the result  *)
(* are the union of both sides' Time values in ascending order (NaT last); *)
(* under one key every left row is paired with every right row, NaT        *)
(* matching NaT; a key present on one side only gets NaN in the other      *)
(* side's columns.  A non-key column present on both sides is renamed      *)
(* with the suffixes _x and _y.                                            *)
(***************************************************************************)
TimeBefore(a, b) == a # NaT /\ (b = NaT \/ a < b)

RECURSIVE SortedKeys(_)
SortedKeys(S) ==
    IF S = {} THEN <<>>
    ELSE LET m == CHOOSE x \in S : \A y \in S \ {x} : TimeBefore(x, y)
         IN  <<m>> \o SortedKeys(S \ {m})

TimesOf(df) == {df.rows[i]["Time"] : i \in 1..Len(df.rows)}

RowsAt(df, k) == SelectSeq(df.rows, LAMBDA r : r["Time"] = k)

MergeColumns(left, right) ==
    LET overlap == (Range(left.cols) \cap Range(right.cols)) \ {"Time"}
        lcols == [i \in 1..Len(left.cols) |->
                    IF left.cols[i] \in overlap THEN left.cols[i] \o "_x"
                    ELSE left.cols[i]]
        rkeep == SelectSeq(right.cols, LAMBDA c : c # "Time")
        rcols == [i \in 1..Len(rkeep) |->
                    IF rkeep[i] \in overlap THEN rkeep[i] \o "_y" ELSE rkeep[i]]
    IN  [l |-> lcols, r |-> rcols, lsrc |-> left.cols, rsrc |-> rkeep]

(* one row of the result: lrow and rrow are sequences of length 0 or 1 *)
MergeRow(mc, k, lrow, rrow) ==
    [c \in Range(mc.l) \cup Range(mc.r) |->
        IF c = "Time" THEN k
        ELSE IF c \in Range(mc.l)
        THEN IF lrow = <<>> THEN NaN
             ELSE lrow[1][mc.lsrc[CHOOSE i \in 1..Len(mc.l) : mc.l[i] = c]]
        ELSE IF rrow = <<>> THEN NaN
             ELSE rrow[1][mc.rsrc[CHOOSE i \in 1..Len(mc.r) : mc.r[i] = c]]]

MergeRowsAtFirstMatch(mc, left, right, k) ==
    LET ls == RowsAt(left, k)
        rs == RowsAt(right, k)
    IN  IF rs = <<>> THEN [a \in 1..Len(ls) |-> MergeRow(mc, k, <<ls[a]>>, <<>>)]
        ELSE IF ls = <<>> THEN [b \in 1..Len(rs) |-> MergeRow(mc, k, <<>>, <<rs[b]>>)]
        ELSE [a \in 1..Len(ls) |-> MergeRow(mc, k, <<ls[a]>>, <<rs[1]>>)]

(* the rows of one key: every left row with every right row of that key *)
MergeRowsAt(mc, left, right, k) ==
    LET ls == RowsAt(left, k)
        rs == RowsAt(right, k)
    IN  IF rs = <<>> THEN [a \in 1..Len(ls) |-> MergeRow(mc, k, <<ls[a]>>, <<>>)]
        ELSE IF ls = <<>> THEN [b \in 1..Len(rs) |-> MergeRow(mc, k, <<>>, <<rs[b]>>)]
        ELSE Flatten([a \in 1..Len(ls) |->
                        [b \in 1..Len(rs) |-> MergeRow(mc, k, <<ls[a]>>, <<rs[b]>>)]])

MergeOuter(left, right) ==
    LET mc == MergeColumns(left, right)
        keys == SortedKeys(TimesOf(left) \cup TimesOf(right))
    IN  [cols |-> mc.l \o mc.r,
         rows |-> Flatten([n \in 1..Len(keys) |-> MergeRowsAt(mc, left, right, keys[n])])]

(***************************************************************************)
(* variable_data_output: what the table shows.  [kind, msg, key, table,    *)
(* usesVars]: kind "error" is the one-row diagnostic grid, "grid" the      *)
(* merged table.                                                           *)
(***************************************************************************)
TableError(msg, key, usesVars) ==
    [kind |-> "error", msg |-> msg, key |-> key, table |-> EmptyDF,
     usesVars |-> usesVars]

(* an exception leaving the render: the table shows no grid at all *)
TableException ==
    [kind |-> "exception", msg |-> "", key |-> "", table |-> EmptyDF,
     usesVars |-> FALSE]

(* pd.DataFrame({"Time": times, var_name: values}) *)
VarFrame(var_name, times, values) ==
    [cols |-> <<"Time", var_name>>,
     rows |-> [i \in 1..Len(times) |->
                 [c \in {"Time", var_name} |->
                    IF c = "Time" THEN times[i] ELSE values[i]]]]

(* the accumulation step: the first non-empty frame seeds the master *)
MergeStep(df_master, df_var) ==
    IF DfEmpty(df_master) THEN df_var ELSE MergeOuter(df_master, df_var)

RECURSIVE MergeLoop(_, _, _)
MergeLoop(df_master, names, o) ==
    IF names = <<>>
    THEN [kind |-> "grid", msg |-> "", key |-> "", table |-> df_master,
          usesVars |-> TRUE]
    ELSE LET var_name == Head(names)
             variable_key == VariableKey(var_name)
             times == ToDatetimeCoerce(DateTimeOf(o))
         IN  IF variable_key \notin DOMAIN o.series
             THEN TableError("Variable not found in API response.", variable_key, TRUE)
             ELSE IF Len(o.series[variable_key]) # Len(times)
             THEN TableError("Error processing data", "", TRUE)
             ELSE LET df_var == VarFrame(var_name, times, o.series[variable_key])
                  IN  IF DfEmpty(df_var)
                      THEN TableError("No valid data available.", "", TRUE)
                      ELSE MergeLoop(MergeStep(df_master, df_var), Tail(names), o)

(* the same accumulation over frames that are already built *)
RECURSIVE MergeFrames(_, _)
MergeFrames(df_master, frames) ==
    IF frames = <<>> THEN df_master
    ELSE MergeFrames(MergeStep(df_master, Head(frames)), Tail(frames))

(* weather_data() is called before the try: what it raises leaves the      *)
(* render.  Inside the try, .get on a first element that is no dict raises *)
(* AttributeError, which the handler reports.  An OBSERVATIONS that is a   *)
(* non-empty list or string passes the shape test; the loop reports the    *)
(* first name as not found when the list does not hold its key, and        *)
(* observations.get raises AttributeError when it does.  On a number or    *)
(* true 'variable_key not in observations' raises TypeError.  Both are     *)
(* reported by the handler, after get_vars_str was called.                 *)
variable_data_output(data, raw_vars) ==
    IF data.raised THEN TableException
    ELSE IF data.isErr THEN TableError("No data available.", "", FALSE)
    ELSE IF data.doc.stations = <<>>
         THEN TableError("Unexpected API response format.", "", FALSE)
    ELSE IF ~data.doc.stations[1].isObject
         THEN TableError("Error processing data", "", FALSE)
    ELSE IF \/ data.doc.stations[1].obsKind \in {"absent", "null"}
            \/ /\ data.doc.stations[1].obsKind = "object"
               /\ ~ObsTruthy(Observations(data.doc))
         THEN TableError("Unexpected API response format.", "", FALSE)
    ELSE IF data.doc.stations[1].obsKind = "number"
         THEN TableError("Error processing data", "", TRUE)
    ELSE IF data.doc.stations[1].obsKind = "list"
         THEN LET variable_key == VariableKey(Head(SplitComma(get_vars_str(raw_vars))))
              IN  IF variable_key \notin DOMAIN data.doc.stations[1].obs.series
                  THEN TableError("Variable not found in API response.",
                                  variable_key, TRUE)
                  ELSE TableError("Error processing data", "", TRUE)
    ELSE MergeLoop(EmptyDF, SplitComma(get_vars_str(raw_vars)), Observations(data.doc))

(***************************************************************************)
(* The feedback form.  A text is a sequence of tokens, " " is a blank.     *)
(***************************************************************************)
InitialFeedbackText == <<"Input your feedback here">>

FeedbackTexts ==
    {<<>>, <<" ", " ">>, <<" ", "x", " ">>, InitialFeedbackText}

RECURSIVE LStrip(_)
LStrip(t) == IF t # <<>> /\ Head(t) = " " THEN LStrip(Tail(t)) ELSE t

RECURSIVE RStrip(_)
RStrip(t) ==
    IF t # <<>> /\ t[Len(t)] = " " THEN RStrip(SubSeq(t, 1, Len(t) - 1)) ELSE t

Strip(t) == RStrip(LStrip(t))

(* outcomes of requests.post: a response, or an exception of some class *)
PostOutcomes ==
    {[kind |-> "response", code |-> c, text |-> "body"] : c \in {HTTP_CREATED, 500}}
      \cup {[kind |-> "transport", code |-> 0, text |-> "ConnectionError"],
            [kind |-> "unexpected", code |-> 0, text |-> "ValueError"]}

NoOutcome == [kind |-> "none", code |-> 0, text |-> ""]

(* the strings feedback_status takes *)
StatusIdle == [msg |-> "", code |-> 0, detail |-> ""]

StatusEmpty ==
    [msg |-> "Feedback is empty. Please type something first.", code |-> 0, detail |-> ""]

StatusThanks ==
    [msg |-> "Thank you! Your feedback has been submitted.", code |-> 0, detail |-> ""]

StatusHttpError(code, text) ==
    [msg |-> "Error creating issue: ", code |-> code, detail |-> text]

StatusException(e) == [msg |-> "Error: ", code |-> 0, detail |-> e]

Payload(feedback) == [title |-> IssueTitle, body |-> feedback]

StatusAfterPostExpects200(result) ==
    IF result.kind = "response"
    THEN IF result.code = HTTP_OK THEN StatusThanks
         ELSE StatusHttpError(result.code, result.text)
    ELSE StatusException(result.text)

(* the try block of submit_feedback_issue, given how requests.post ended *)
StatusAfterPost(result) ==
    IF result.kind = "response"
    THEN IF result.code = HTTP_CREATED THEN StatusThanks
         ELSE StatusHttpError(result.code, result.text)
    ELSE StatusException(result.text)

ButtonLeftDisabled == TRUE

(* the finally block: ui.update_action_button(..., disabled=False) *)
ButtonAfterFinally == FALSE

(***************************************************************************)
(* Groups of variables and the values of calcs and outputs that have not   *)
(* run.                                                                    *)
(***************************************************************************)
inputVars == <<station, vars, date_range, feedback_text>>
cacheVars == <<url_c, wd_c, pd_c>>
outVars == <<plot_out, table_out, status_out>>
feedbackVars == <<feedback_status, button_disabled, attempt, posted, outcome>>
mergeVars == <<m_a, m_b, m_ab, m_ba, m_pc>>
pureVars == <<h_vars, h_obs, h_str, h_parsed, h_plot, h_pc>>
harnessVars == <<mergeVars, pureVars>>
vars_all == <<inputVars, cacheVars, outVars, feedbackVars, pc, caller, waiting,
              getsSinceChange, harnessVars, inflight>>

InvalidUrl == [valid |-> FALSE, usesVars |-> FALSE, value |-> <<>>]
InvalidData ==
    [valid |-> FALSE, value |-> NoUrlData, req |-> <<>>, resp |-> NoReply]
NoParsed == [kind |-> "none", df |-> EmptyDF, usesVars |-> FALSE]
InvalidParsed ==
    [valid |-> FALSE, value |-> NoParsed, src |-> InvalidData, names |-> <<>>]
InvalidPlot ==
    [valid |-> FALSE, value |-> PlotText(""), src |-> InvalidData, names |-> <<>>]
InvalidTable ==
    [valid |-> FALSE, value |-> TableError("", "", FALSE), src |-> InvalidData,
     names |-> <<>>]

InitServer ==
    /\ station = "RFBRC"
    /\ vars = <<"air_temp">>
    /\ date_range = [present |-> TRUE,
                     ends |-> <<DateEnd(206), DateEnd(207)>>]
    /\ feedback_text = InitialFeedbackText
    /\ url_c = InvalidUrl
    /\ wd_c = InvalidData
    /\ pd_c = InvalidParsed
    /\ plot_out = InvalidPlot
    /\ table_out = InvalidTable
    /\ status_out = [valid |-> FALSE, value |-> StatusIdle]
    /\ feedback_status = StatusIdle
    /\ button_disabled = FALSE
    /\ pc = "idle"
    /\ caller = "none"
    /\ waiting = FALSE
    /\ getsSinceChange = 0
    /\ inflight = 0
    /\ attempt = [active |-> FALSE, text |-> <<>>]
    /\ posted = <<>>
    /\ outcome = NoOutcome

(* the pure stages are not run on their own *)
PureOff ==
    /\ h_vars = <<>>
    /\ h_obs = EmptyObs
    /\ h_str = <<>>
    /\ h_parsed = NoParsed
    /\ h_plot = PlotText("")
    /\ h_pc = "off"

Init ==
    /\ InitServer
    /\ m_a = EmptyDF
    /\ m_b = EmptyDF
    /\ m_ab = EmptyDF
    /\ m_ba = EmptyDF
    /\ m_pc = "off"
    /\ PureOff

(***************************************************************************)
(* The reactive graph.  A calc or output that has run holds its value      *)
(* until something it read changes; an invalidated node drops its value.   *)
(* url reads date_range and station, and vars once the range and station   *)
(* are accepted; weather_data reads url; parsed_data reads weather_data    *)
(* and vars; weather_plot reads parsed_data; variable_data_output reads    *)
(* weather_data and vars.  Nothing reads feedback_text reactively: the     *)
(* feedback effect is an event handler of the button.                      *)
(***************************************************************************)
Quiescent ==
    pc = "idle" /\ plot_out.valid /\ table_out.valid /\ status_out.valid

InvalidateKeepsParsed(x) ==
    LET u == url_c.valid /\ (x \in {"station", "date_range"}
                               \/ (x = "vars" /\ url_c.usesVars))
    IN  [url |-> u, wd |-> u, pd |-> FALSE, plot |-> FALSE,
         table |-> u \/ (x = "vars" /\ table_out.value.usesVars)]

Invalidate(x) ==
    LET u == url_c.valid /\ (x \in {"station", "date_range"}
                               \/ (x = "vars" /\ url_c.usesVars))
        p == u \/ (x = "vars" /\ pd_c.value.usesVars)
    IN  [url |-> u, wd |-> u, pd |-> p, plot |-> p,
         table |-> u \/ (x = "vars" /\ table_out.value.usesVars)]

ApplyInvalidation(inv) ==
    /\ url_c' = IF inv.url THEN InvalidUrl ELSE url_c
    /\ wd_c' = IF inv.wd THEN InvalidData ELSE wd_c
    /\ pd_c' = IF inv.pd THEN InvalidParsed ELSE pd_c
    /\ plot_out' = IF inv.plot THEN InvalidPlot ELSE plot_out
    /\ table_out' = IF inv.table THEN InvalidTable ELSE table_out

(* the next client message is handled; others may still wait behind it *)
TakeMessage == waiting' \in IF waiting THEN BOOLEAN ELSE {FALSE}

(* the client changed one of the three parameters *)
ParamChange(x) ==
    /\ Quiescent
    /\ ApplyInvalidation(Invalidate(x))
    /\ getsSinceChange' = 0
    /\ TakeMessage
    /\ UNCHANGED <<feedback_text, status_out, feedbackVars, pc, caller,
                   harnessVars, inflight>>

SetStation ==
    \E s \in Stations \ {station} :
        /\ station' = s
        /\ UNCHANGED <<vars, date_range>>
        /\ ParamChange("station")

SetVars ==
    \E vs \in VarLists \ {vars} :
        /\ vars' = vs
        /\ UNCHANGED <<station, date_range>>
        /\ ParamChange("vars")

SetDateRange ==
    \E dr \in DateRanges \ {date_range} :
        /\ date_range' = dr
        /\ UNCHANGED <<station, vars>>
        /\ ParamChange("date_range")

SetFeedbackText ==
    \E t \in FeedbackTexts \ {feedback_text} :
        /\ Quiescent
        /\ feedback_text' = t
        /\ ApplyInvalidation(Invalidate("feedback_text"))
        /\ attempt' = [active |-> FALSE, text |-> <<>>]
        /\ posted' = <<>>
        /\ outcome' = NoOutcome
        /\ TakeMessage
        /\ UNCHANGED <<station, vars, date_range, status_out, feedback_status,
                       button_disabled, pc, caller, getsSinceChange, harnessVars, inflight>>

(* a client message reaches the server while its thread is busy *)
Arrive ==
    /\ ~Quiescent
    /\ ~waiting
    /\ waiting' = TRUE
    /\ UNCHANGED <<inputVars, cacheVars, outVars, feedbackVars, pc, caller,
                   getsSinceChange, harnessVars, inflight>>

(***************************************************************************)
(* Pulling the calcs.                                                      *)
(***************************************************************************)
CurUrl ==
    IF url_c.valid THEN url_c
    ELSE LET u == url(date_range, station, vars)
         IN  [valid |-> TRUE, usesVars |-> u.usesVars, value |-> u.value]

NeedsGet == ~wd_c.valid /\ CurUrl.value # <<>>

DataNotCached(value, req, resp) ==
    [valid |-> FALSE, value |-> value, req |-> req, resp |-> resp]

(* @reactive.calc keeps the value weather_data returned, or the exception *)
(* it raised, which every reader gets raised again until the calc is      *)
(* invalidated; req and resp record the request it was fetched with and   *)
(* the response it was made of                                            *)
DataCached(value, req, resp) ==
    [valid |-> TRUE, value |-> value, req |-> req, resp |-> resp]

(* weather_data() when no GET is needed: the cached value or the no-URL error *)
DataNoGet == IF wd_c.valid THEN wd_c ELSE DataCached(NoUrlData, <<>>, NoReply)

SelectedNames(usesVars) ==
    IF usesVars THEN SplitComma(get_vars_str(vars)) ELSE <<>>

ParsedFrom(wd) ==
    IF pd_c.valid THEN pd_c
    ELSE LET v == parsed_data(wd.value, vars)
         IN  [valid |-> TRUE, value |-> v, src |-> wd,
              names |-> SelectedNames(v.usesVars)]

PlotFrom(pdc) ==
    [valid |-> TRUE, value |-> weather_plot(pdc.value), src |-> pdc.src,
     names |-> pdc.names]

TableFrom(wd) ==
    LET t == variable_data_output(wd.value, vars)
    IN  [valid |-> TRUE, value |-> t, src |-> wd, names |-> SelectedNames(t.usesVars)]

BumpGets == getsSinceChange' = IF getsSinceChange < 2 THEN getsSinceChange + 1 ELSE 2

ThreadShared == TRUE

(* one thread runs every render: a render starts when nothing else runs *)
ThreadFree == pc = "idle"

(* requests.get(request_url) is entered *)
EnterGet(who) ==
    /\ pc' = "get"
    /\ caller' = who
    /\ inflight' = inflight + 1
    /\ BumpGets

(* weather_plot runs and finds everything it needs without the network *)
RenderPlot ==
    /\ ThreadFree
    /\ ~plot_out.valid
    /\ pd_c.valid \/ ~NeedsGet
    /\ LET wd == DataNoGet
           pdc == ParsedFrom(wd)
       IN  /\ url_c' = IF pd_c.valid THEN url_c ELSE CurUrl
           /\ wd_c' = IF pd_c.valid THEN wd_c ELSE wd
           /\ pd_c' = pdc
           /\ plot_out' = PlotFrom(pdc)
    /\ UNCHANGED <<inputVars, table_out, status_out, feedbackVars, pc, caller,
                   waiting, getsSinceChange, harnessVars, inflight>>

(* weather_plot runs, weather_data has to fetch: requests.get is entered *)
RenderPlotGet ==
    /\ ThreadFree
    /\ inflight < 2
    /\ ~plot_out.valid
    /\ ~pd_c.valid
    /\ NeedsGet
    /\ url_c' = CurUrl
    /\ EnterGet("plot")
    /\ UNCHANGED <<inputVars, wd_c, pd_c, outVars, feedbackVars, waiting, harnessVars>>

RenderTable ==
    /\ ThreadFree
    /\ ~table_out.valid
    /\ ~NeedsGet
    /\ url_c' = IF wd_c.valid THEN url_c ELSE CurUrl
    /\ wd_c' = DataNoGet
    /\ table_out' = TableFrom(DataNoGet)
    /\ UNCHANGED <<inputVars, pd_c, plot_out, status_out, feedbackVars, pc,
                   caller, waiting, getsSinceChange, harnessVars, inflight>>

RenderTableGet ==
    /\ ThreadFree
    /\ inflight < 2
    /\ ~table_out.valid
    /\ NeedsGet
    /\ url_c' = CurUrl
    /\ EnterGet("table")
    /\ UNCHANGED <<inputVars, wd_c, pd_c, outVars, feedbackVars, waiting, harnessVars>>

(* requests.get ends; weather_data returns and the waiting render finishes *)
GetReturns ==
    \E resp \in Responses :
        /\ pc = "get"
        /\ LET wd == DataCached(weather_data(resp), url_c.value, resp)
           IN  /\ wd_c' = wd
               /\ IF caller = "plot"
                  THEN /\ pd_c' = ParsedFrom(wd)
                       /\ plot_out' = PlotFrom(ParsedFrom(wd))
                       /\ UNCHANGED table_out
                  ELSE /\ table_out' = TableFrom(wd)
                       /\ UNCHANGED <<pd_c, plot_out>>
        /\ pc' = "idle"
        /\ caller' = "none"
        /\ inflight' = inflight - 1
        /\ UNCHANGED <<inputVars, url_c, status_out, feedbackVars, waiting,
                       getsSinceChange, harnessVars>>

(* requests.get(request_url) is called without a timeout: when the server  *)
(* accepts the connection and never answers, the call never returns and   *)
(* never raises, and the thread stays inside it                            *)
GetHangs ==
    /\ pc = "get"
    /\ pc' = "hung"
    /\ UNCHANGED <<inputVars, cacheVars, outVars, feedbackVars, caller, waiting,
                   getsSinceChange, harnessVars, inflight>>

(***************************************************************************)
(* submit_feedback_issue and feedback_status_output.                       *)
(***************************************************************************)
FeedbackRaw(text) == text

(* feedback = input.feedback_text().strip() *)
FeedbackOf(text) == Strip(text)

(* the statuses built by an f-string: a new str object at every call *)
Formatted(v) == v.msg \in {"Error creating issue: ", "Error: "}

(* feedback_status.set(v): reactive.Value.set returns early, invalidating   *)
(* nothing, only when the held value IS the new one.  The two literal      *)
(* messages are the same object at every call; a formatted message never   *)
(* is the object that is held, even when it reads the same.                *)
SetStatus(v) ==
    /\ feedback_status' = v
    /\ status_out' = IF Formatted(v) \/ v # feedback_status
                     THEN [valid |-> FALSE, value |-> StatusIdle]
                     ELSE status_out

(* the client sends a click when the button is enabled *)
Clickable == Quiescent /\ ~button_disabled

(* the button is clicked and the stripped text is empty: warn and return *)
SubmitEmpty ==
    /\ Clickable
    /\ FeedbackOf(feedback_text) = <<>>
    /\ SetStatus(StatusEmpty)
    /\ attempt' = [active |-> TRUE, text |-> feedback_text]
    /\ posted' = <<>>
    /\ outcome' = NoOutcome
    /\ TakeMessage
    /\ UNCHANGED <<inputVars, cacheVars, plot_out, table_out, button_disabled,
                   pc, caller, getsSinceChange, harnessVars, inflight>>

(* the button is clicked with some text: requests.post is entered *)
SubmitPost ==
    /\ Clickable
    /\ FeedbackOf(feedback_text) # <<>>
    /\ pc' = "post"
    /\ attempt' = [active |-> TRUE, text |-> feedback_text]
    /\ posted' = <<Payload(FeedbackOf(feedback_text))>>
    /\ outcome' = NoOutcome
    /\ TakeMessage
    /\ UNCHANGED <<inputVars, cacheVars, outVars, feedback_status,
                   button_disabled, caller, getsSinceChange, harnessVars, inflight>>

(* requests.post ends: the try block's branch, then the finally block *)
PostReturns ==
    \E o \in PostOutcomes :
        /\ pc = "post"
        /\ SetStatus(StatusAfterPost(o))
        /\ button_disabled' = ButtonAfterFinally
        /\ outcome' = o
        /\ pc' = "idle"
        /\ UNCHANGED <<inputVars, cacheVars, plot_out, table_out, attempt,
                       posted, caller, waiting, getsSinceChange, harnessVars, inflight>>

(* timeout=10 bounds the connect and each wait for bytes, never the whole  *)
(* call: a server that keeps sending a byte within every ten seconds       *)
(* holds requests.post, and the thread, for as long as it likes            *)
PostHangs ==
    /\ pc = "post"
    /\ pc' = "post_hung"
    /\ UNCHANGED <<inputVars, cacheVars, outVars, feedbackVars, caller, waiting,
                   getsSinceChange, harnessVars, inflight>>

RenderStatus ==
    /\ ThreadFree
    /\ ~status_out.valid
    /\ status_out' = [valid |-> TRUE, value |-> feedback_status]
    /\ UNCHANGED <<inputVars, cacheVars, plot_out, table_out, feedbackVars, pc,
                   caller, waiting, getsSinceChange, harnessVars, inflight>>

(***************************************************************************)
(* The merge on its own: the TimeSeries of two variables of one response,  *)
(* which share its date_time array, put through the accumulation of        *)
(* variable_data_output in both orders.                                    *)
(***************************************************************************)
SeriesValues == {11, NaN}

(* the date_time arrays a run builds its frames from *)
MergeTimes == UNION {[1..n -> RawTimes] : n \in 1..MaxSeries}

(* both frames of a run are built from the one observations["date_time"] *)
InitMerge ==
    /\ InitServer
    /\ \E raw \in MergeTimes :
         \E va, vb \in [1..Len(raw) -> SeriesValues] :
            /\ m_a = VarFrame("air_temp", ToDatetimeCoerce(raw), va)
            /\ m_b = VarFrame("soil_moisture", ToDatetimeCoerce(raw), vb)
    /\ m_ab = EmptyDF
    /\ m_ba = EmptyDF
    /\ m_pc = "ready"
    /\ PureOff

MergeBothOrders ==
    /\ m_pc = "ready"
    /\ m_ab' = MergeFrames(EmptyDF, <<m_a, m_b>>)
    /\ m_ba' = MergeFrames(EmptyDF, <<m_b, m_a>>)
    /\ m_pc' = "merged"
    /\ UNCHANGED <<inputVars, cacheVars, outVars, feedbackVars, pc, caller, waiting,
                   getsSinceChange, inflight, m_a, m_b, pureVars>>

NextMerge == MergeBothOrders

SpecMerge == InitMerge /\ [][NextMerge]_vars_all

(***************************************************************************)
(* The pure stages on their own: get_vars_str, parsed_data and             *)
(* weather_plot applied in turn to a selection of up to MaxVars variables  *)
(* and a response that reports any subset of them.                         *)
(***************************************************************************)
PoolNames == <<"air_temp", "soil_moisture", "wind_speed", "snow_depth">>

PureNames == {PoolNames[i] : i \in 1..MaxVars}

(* the selectize widget lets a variable be selected once *)
PureVarLists ==
    {l \in SeqsUpTo(PureNames, MaxVars) :
        \A i, j \in 1..Len(l) : l[i] = l[j] => i = j}

PureTimes ==
    {<<>>, <<"2025-02-06T00:00:00Z">>,
     <<"2025-02-06T00:00:00Z", "2025-02-06T01:00:00Z">>}

(* aligned blocks, and blocks whose series have two entries while          *)
(* date_time has none                                                      *)
PureObs ==
    {[hasDateTime |-> TRUE, date_time |-> dt,
      series |-> [k \in {VariableKey(v) : v \in present} |-> ObsArray(k, Len(dt))]] :
        dt \in PureTimes, present \in SUBSET PureNames}
    \cup
    {[hasDateTime |-> TRUE, date_time |-> <<>>,
      series |-> [k \in {VariableKey(v) : v \in present} |-> ObsArray(k, 2)]] :
        present \in SUBSET PureNames}

(* what weather_data returns for a 200 response carrying the block *)
PureData(o) ==
    weather_data([transport |-> "ok", status |-> HTTP_OK, isJson |-> TRUE,
                  body |-> StationDoc(<<StationObject(o)>>)])

InitPure ==
    /\ InitServer
    /\ m_a = EmptyDF
    /\ m_b = EmptyDF
    /\ m_ab = EmptyDF
    /\ m_ba = EmptyDF
    /\ m_pc = "off"
    /\ h_vars \in PureVarLists
    /\ h_obs \in PureObs
    /\ h_str = <<>>
    /\ h_parsed = NoParsed
    /\ h_plot = PlotText("")
    /\ h_pc = "ready"

serverVars ==
    <<inputVars, cacheVars, outVars, feedbackVars, pc, caller, waiting,
      getsSinceChange, inflight>>

RunGetVarsStr ==
    /\ h_pc = "ready"
    /\ h_str' = get_vars_str(h_vars)
    /\ h_pc' = "formatted"
    /\ UNCHANGED <<serverVars, mergeVars, h_vars, h_obs, h_parsed, h_plot>>

RunParsedData ==
    /\ h_pc = "formatted"
    /\ h_parsed' = parsed_data(PureData(h_obs), h_vars)
    /\ h_pc' = "normalized"
    /\ UNCHANGED <<serverVars, mergeVars, h_vars, h_obs, h_str, h_plot>>

RunWeatherPlot ==
    /\ h_pc = "normalized"
    /\ h_plot' = weather_plot(h_parsed)
    /\ h_pc' = "selected"
    /\ UNCHANGED <<serverVars, mergeVars, h_vars, h_obs, h_str, h_parsed>>

NextPure ==
    \/ RunGetVarsStr
    \/ RunParsedData
    \/ RunWeatherPlot

SpecPure == InitPure /\ [][NextPure]_vars_all

Next ==
    \/ SetStation
    \/ SetVars
    \/ SetDateRange
    \/ SetFeedbackText
    \/ Arrive
    \/ RenderPlot
    \/ RenderPlotGet
    \/ RenderTable
    \/ RenderTableGet
    \/ GetReturns
    \/ GetHangs
    \/ SubmitEmpty
    \/ SubmitPost
    \/ PostReturns
    \/ PostHangs
    \/ RenderStatus

Spec == Init /\ [][Next]_vars_all

(***************************************************************************)
(* Progress.  A call of requests.get or requests.post that the server      *)
(* does not hold for ever ends, with a response or with an exception; the  *)
(* calls that are held are the states "hung" and "post_hung" (GetHangs,    *)
(* PostHangs), in which nothing is enabled for the thread.  The flush that *)
(* follows a handler runs the status output.  The client is under no       *)
(* obligation.  In the runs checked for progress the                       *)
(* client leaves the variables and the date range as they are and changes  *)
(* the station and the feedback text only.                                 *)
(***************************************************************************)
Fairness ==
    /\ WF_vars_all(GetReturns)
    /\ WF_vars_all(PostReturns)
    /\ WF_vars_all(RenderStatus)

NextLive ==
    \/ SetStation
    \/ SetFeedbackText
    \/ Arrive
    \/ RenderPlot
    \/ RenderPlotGet
    \/ RenderTable
    \/ RenderTableGet
    \/ GetReturns
    \/ GetHangs
    \/ SubmitEmpty
    \/ SubmitPost
    \/ PostReturns
    \/ PostHangs
    \/ RenderStatus

SpecLive == Init /\ [][NextLive]_vars_all /\ Fairness

(***************************************************************************)
(* Properties.                                                             *)
(***************************************************************************)
RequestedNames == SplitComma(get_vars_str(vars))

(* the variable list inside a request URL, read back from the vars field *)
RequestVars(req) == SplitComma(SubSeq(req, 8, Len(req) - 2))

(* a response with a station, a non-empty aligned observation block and *)
(* readable timestamps *)
WellFormed(data) ==
    /\ ~data.raised
    /\ ~data.isErr
    /\ data.doc.stations # <<>>
    /\ data.doc.stations[1].isObject
    /\ data.doc.stations[1].obsKind = "object"
    /\ LET o == data.doc.stations[1].obs
       IN  /\ o.hasDateTime
           /\ o.date_time # <<>>
           /\ \A i \in 1..Len(o.date_time) : ParseTime(o.date_time[i]) # NaT
           /\ \A k \in DOMAIN o.series : Len(o.series[k]) = Len(o.date_time)

MissingRequested(data) ==
    {v \in Range(RequestedNames) :
        VariableKey(v) \notin DOMAIN data.doc.stations[1].obs.series}

\* C1: whenever the response is otherwise well-formed but lacks the
\* '<v>_set_1' key of a requested variable, both the table and the chart
\* show a diagnostic; neither shows the variables that are present.
C1_AllOrNothingOnMissing ==
    (/\ Quiescent
     /\ wd_c.valid
     /\ WellFormed(wd_c.value)
     /\ MissingRequested(wd_c.value) # {})
    => (/\ table_out.value.kind = "error"
        /\ plot_out.value.kind = "text")

\* C2: a weather GET is issued only after station, variables or date range
\* changed since the previous one, at most one between two changes, however
\* many renders pull the result and whatever the feedback form does.
C2_NoRedundantGet == getsSinceChange <= 1

C2_Witness ==
    /\ Quiescent
    /\ getsSinceChange = 1
    /\ plot_out.src = wd_c
    /\ table_out.src = wd_c
    /\ wd_c.req # <<>>
    /\ outcome.kind = "response"

\* C3: once the chart and the table have both been recomputed after the
\* latest parameter change, both come from the one fetch result held for
\* the current station, variables and date range, and the variable list
\* each was normalized with is the list that went into the request.
C3_NoStaleOrMixed ==
    (pc = "idle" /\ plot_out.valid /\ table_out.valid)
    => (/\ wd_c.valid
        /\ plot_out.src = wd_c
        /\ table_out.src = wd_c
        /\ wd_c.req = url(date_range, station, vars).value
        /\ (plot_out.names # <<>> => plot_out.names = RequestVars(wd_c.req))
        /\ (table_out.names # <<>> => table_out.names = RequestVars(wd_c.req)))

C3_Witness ==
    /\ Quiescent
    /\ vars = <<"soil_moisture", "air_temp">>
    /\ date_range.ends = <<DateEnd(207), DateEnd(206)>>
    /\ plot_out.value.kind = "dual"
    /\ table_out.value.kind = "grid"
    /\ plot_out.names = <<"soil_moisture", "air_temp">>

(* the parameters the claim calls unusable, in its own words *)
UnusableParameters ==
    \/ station = ""
    \/ ~date_range.present
    \/ Len(date_range.ends) # 2
    \/ \E i \in 1..Len(date_range.ends) : date_range.ends[i].kind = "none"
    \/ \E i \in 1..Len(date_range.ends) : date_range.ends[i].kind # "date"

\* C4: with an empty station or a date range that is absent, not of two
\* endpoints, holding a null endpoint or an endpoint that cannot be
\* formatted, url yields the empty URL, no GET is issued, and both renders
\* show a diagnostic.
C4_ValidationPrecedesNetwork ==
    UnusableParameters
    => (/\ pc # "get"
        /\ getsSinceChange = 0
        /\ (url_c.valid => url_c.value = <<>>)
        /\ (wd_c.valid => wd_c.value = NoUrlData)
        /\ (plot_out.valid => plot_out.value.kind = "text")
        /\ (table_out.valid => table_out.value = TableError("No data available.", "", FALSE)))

C4_Witness ==
    /\ Quiescent
    /\ station = "RFBRC"
    /\ date_range.ends = <<StrEnd, DateEnd(207)>>
    /\ wd_c.value = NoUrlData
    /\ plot_out.value = PlotText("No data available")

(* the submit being handled has reached a terminal state *)
InPost == pc \in {"post", "post_hung"}

AttemptEnded == attempt.active /\ ~InPost

\* C5: whichever terminal state a submit reaches (empty, succeeded, failed
\* by status, by transport error or by an unexpected exception), the submit
\* button is enabled when it is reached.
C5_AlwaysReEnabled == AttemptEnded => ~button_disabled

C5_Witness ==
    /\ AttemptEnded
    /\ outcome.kind = "unexpected"
    /\ feedback_status = StatusException("ValueError")
    /\ ~button_disabled

\* C6: while a submission is in flight the submit button is disabled.
C6_SubmittingDisablesButton == pc = "post" => button_disabled

\* C7: a submit whose stripped text is empty ends in the empty status,
\* posts nothing and is never in flight.
C7_EmptyGuard ==
    (attempt.active /\ Strip(attempt.text) = <<>>)
    => (/\ ~InPost
        /\ posted = <<>>
        /\ feedback_status = StatusEmpty)

C7_Witness ==
    /\ attempt.active
    /\ attempt.text = <<" ", " ">>
    /\ feedback_status = StatusEmpty
    /\ status_out = [valid |-> TRUE, value |-> StatusEmpty]

(* the terminal status fixed by the outcome of the post *)
StatusMatchesOutcome ==
    /\ feedback_status = StatusThanks
         <=> (outcome.kind = "response" /\ outcome.code = HTTP_CREATED)
    /\ (outcome.kind = "response" /\ outcome.code # HTTP_CREATED)
         => feedback_status = StatusHttpError(outcome.code, outcome.text)
    /\ outcome.kind \in {"transport", "unexpected"}
         => feedback_status = StatusException(outcome.text)

\* C8 as stated: a submit with non-empty stripped text posts exactly once,
\* with the fixed title and the text as body, and ends in the status fixed
\* by the outcome.
C8_OutcomeMappingTextBody ==
    (attempt.active /\ Strip(attempt.text) # <<>>)
    => (/\ posted = <<[title |-> IssueTitle, body |-> attempt.text]>>
        /\ (~InPost => StatusMatchesOutcome))

\* C8 amended: a submit with non-empty stripped text posts exactly once,
\* with the fixed title and the stripped text as body, and ends in the
\* status fixed by the outcome: succeeded exactly for status 201, the HTTP
\* error with code and body for another status, the exception's message
\* for a transport error.
C8_OutcomeMappingStrippedBody ==
    (attempt.active /\ Strip(attempt.text) # <<>>)
    => (/\ posted = <<[title |-> IssueTitle, body |-> Strip(attempt.text)]>>
        /\ (~InPost => StatusMatchesOutcome))

C8_Witness ==
    /\ AttemptEnded
    /\ attempt.text = <<" ", "x", " ">>
    /\ posted = <<[title |-> IssueTitle, body |-> <<"x">>]>>
    /\ outcome = [kind |-> "response", code |-> 500, text |-> "body"]
    /\ feedback_status = StatusHttpError(500, "body")

(* how often a row occurs in a table *)
RowCount(r, df) == Cardinality({i \in 1..Len(df.rows) : df.rows[i] = r})

SameCells(t1, t2) ==
    /\ Range(t1.cols) = Range(t2.cols)
    /\ Len(t1.rows) = Len(t2.rows)
    /\ \A r \in Range(t1.rows) \cup Range(t2.rows) : RowCount(r, t1) = RowCount(r, t2)

\* C9: merging the TimeSeries of two variables of one response in the
\* order [A, B] and in the order [B, A] gives the same rows with the same
\* value in every cell, whatever the timestamps the response reports
\* (distinct, repeated, missing); only the column order may differ.
C9_JoinCommutes == m_pc = "merged" => SameCells(m_ab, m_ba)

C9_Witness ==
    /\ m_pc = "merged"
    /\ m_ab.cols # m_ba.cols
    /\ TimesOf(m_a) = {NaT}
    /\ Len(m_a.rows) = 2
    /\ m_a.rows[1]["air_temp"] # m_a.rows[2]["air_temp"]
    /\ m_b.rows[1]["soil_moisture"] # m_b.rows[2]["soil_moisture"]
    /\ Len(m_ab.rows) = 4

\* C10: the merged table of two TimeSeries has one row per distinct
\* timestamp, |T1 \cup T2| rows in all.
C10_UnionRowCount ==
    (/\ table_out.valid
     /\ table_out.value.kind = "grid"
     /\ Len(table_out.value.table.cols) = 3)
    => LET o == Observations(table_out.src.value.doc)
           T == Range(ToDatetimeCoerce(DateTimeOf(o)))
       IN  /\ TimesOf(table_out.value.table) = T
           /\ Len(table_out.value.table.rows) = Cardinality(T)

(***************************************************************************)
(* The chart's axis plan.                                                  *)
(***************************************************************************)
NonTimeCols(df) == SelectSeq(df.cols, LAMBDA c : c # "Time")

AxisPlan(p) == [kind |-> p.kind, primary |-> p.primary, secondary |-> p.secondary]

PlotNothing == [kind |-> "text", primary |-> "", secondary |-> ""]

(* the plan the policy names for an ordered list of columns *)
PlanFromColumns(cols) ==
    IF Len(cols) = 0 THEN PlotNothing
    ELSE IF Len(cols) = 1
    THEN [kind |-> "single", primary |-> cols[1], secondary |-> ""]
    ELSE [kind |-> "dual", primary |-> cols[1], secondary |-> cols[2]]

(* the frame cut down to Time and its first n other columns *)
KeepColumns(df, n) ==
    LET others == NonTimeCols(df)
        keep == <<"Time">> \o SubSeq(others, 1, IF Len(others) < n THEN Len(others) ELSE n)
    IN  [cols |-> keep,
         rows |-> [i \in 1..Len(df.rows) |-> [c \in Range(keep) |-> df.rows[i][c]]]]

AsParsed(df) == [kind |-> "df", df |-> df, usesVars |-> TRUE]

\* C11 as stated: the axis plan depends only on the ordered list of
\* non-Time columns: none gives plot-nothing, one gives a single axis on it,
\* two or more give the first as primary and the second as secondary.
C11_AxisPlanFromColumnsOnly ==
    (h_pc = "selected" /\ h_parsed.kind = "df")
    => AxisPlan(h_plot) = PlanFromColumns(NonTimeCols(h_parsed.df))

\* C11 amended: for a frame with at least one row the axis plan depends
\* only on the ordered list of non-Time columns (none: plot-nothing; one: a
\* single axis on it; two or more: first primary, second secondary, later
\* columns ignored, so [a, b, c] gets the plan of [a, b]); a frame without
\* rows gives plot-nothing whatever its columns.
C11_AxisPlanOfNonEmptyFrame ==
    (h_pc = "selected" /\ h_parsed.kind = "df")
    => LET df == h_parsed.df
           cols == NonTimeCols(df)
       IN  IF df.rows = <<>> THEN AxisPlan(h_plot) = PlotNothing
           ELSE /\ AxisPlan(h_plot) = PlanFromColumns(cols)
                /\ AxisPlan(h_plot) =
                     AxisPlan(weather_plot(AsParsed(KeepColumns(df, 2))))
                /\ AxisPlan(h_plot) =
                     AxisPlan(weather_plot(AsParsed(
                        [cols |-> df.cols, rows |-> <<df.rows[1]>>])))

C11_Witness ==
    /\ h_pc = "selected"
    /\ NonTimeCols(h_parsed.df) = <<"air_temp", "soil_moisture", "wind_speed">>
    /\ Len(h_parsed.df.rows) = 2
    /\ AxisPlan(h_plot) =
         [kind |-> "dual", primary |-> "air_temp", secondary |-> "soil_moisture"]

(***************************************************************************)
(* The formatted variable string.                                          *)
(***************************************************************************)
\* C12: for an empty variable list the formatted variable string is
\* exactly 'air_temp'; for a non-empty list it is the elements in the
\* caller's order with one comma between neighbours, none dropped or
\* reordered, so that splitting it at the commas gives the list back.
C12_EmptySelectionDefaults ==
    h_pc \in {"formatted", "normalized", "selected"}
    => IF h_vars = <<>> THEN h_str = <<"air_temp">>
       ELSE /\ Len(h_str) = 2 * Len(h_vars) - 1
            /\ \A i \in 1..Len(h_vars) : h_str[2 * i - 1] = h_vars[i]
            /\ \A i \in 1..(Len(h_vars) - 1) : h_str[2 * i] = ","
            /\ SplitComma(h_str) = h_vars

C12_Witness ==
    /\ h_pc = "formatted"
    /\ h_vars = <<"soil_moisture", "air_temp", "wind_speed">>
    /\ h_str = <<"soil_moisture", ",", "air_temp", ",", "wind_speed">>

(***************************************************************************)
(* The fetch.                                                              *)
(***************************************************************************)
TransportFailure(resp) == resp.transport = "error"

NonSuccessStatus(resp) ==
    resp.transport = "ok" /\ ~(resp.status >= 200 /\ resp.status <= 299)

\* C13: an invocation of weather_data issues exactly one GET and does not
\* retry; a non-2xx response gives the error value carrying the status, a
\* transport failure gives the fetch-error value; the calc returns it (no
\* exception reaches a render) and both renders show a diagnostic.
C13_FetchFailuresTagged ==
    /\ pc \in {"get", "hung"} => (inflight = 1 /\ getsSinceChange = 1)
    /\ (wd_c.valid /\ (TransportFailure(wd_c.resp) \/ NonSuccessStatus(wd_c.resp)))
       => (/\ getsSinceChange = 1
           /\ inflight = 0
           /\ wd_c.value.isErr
           /\ TransportFailure(wd_c.resp)
                => wd_c.value = ErrorDict("Error fetching API data", 0)
           /\ NonSuccessStatus(wd_c.resp)
                => wd_c.value = ErrorDict("API Error", wd_c.resp.status)
           /\ pd_c.valid => pd_c.value.kind = "none"
           /\ plot_out.valid => plot_out.value = PlotText("No data available")
           /\ table_out.valid
                => table_out.value = TableError("No data available.", "", FALSE))

C13_Witness ==
    /\ Quiescent
    /\ wd_c.resp.transport = "ok"
    /\ wd_c.resp.status = 500
    /\ wd_c.value = ErrorDict("API Error", 500)
    /\ plot_out.src = wd_c
    /\ table_out.src = wd_c
    /\ plot_out.value.kind = "text"
    /\ table_out.value.kind = "error"

(***************************************************************************)
(* The request descriptor.                                                 *)
(***************************************************************************)
(* the fields of a request URL *)
DescriptorOf(v) ==
    [stid |-> v[2], start |-> v[4], end |-> v[6],
     vars |-> SubSeq(v, 8, Len(v) - 2), token |-> v[Len(v)]]

\* C14: whenever url has run, at any point of any run, the descriptor it
\* holds is the one a fresh invocation returns for the current station,
\* variables and date range, equal to it in every field (stid, start, end,
\* vars, token); and a step in which url runs changes neither the
\* parameters nor the feedback form.
C14_IdempotentRebuild ==
    /\ [](url_c.valid
          => /\ url_c.value = url(date_range, station, vars).value
             /\ url_c.value # <<>>
                  => DescriptorOf(url_c.value) =
                       [stid |-> station,
                        start |-> Strftime(date_range.ends[1].v),
                        end |-> Strftime(date_range.ends[2].v),
                        vars |-> get_vars_str(vars),
                        token |-> syn_token])
    /\ [][(~url_c.valid /\ url_c'.valid)
            => UNCHANGED <<inputVars, feedbackVars, status_out>>]_vars_all

C14_Witness ==
    /\ Quiescent
    /\ getsSinceChange = 1
    /\ outcome.kind = "response"
    /\ date_range.ends = <<DateEnd(206), DateEnd(207)>>
    /\ DescriptorOf(url_c.value) =
         [stid |-> "RFBRC", start |-> 2060000, end |-> 2070000,
          vars |-> <<"soil_moisture", ",", "air_temp">>, token |-> syn_token]

\* C15: every fetch that is started completes, with a document or an
\* error value; the thread does not stay in requests.get forever.
C15_FetchAlwaysReturns == (pc = "get") ~> (pc = "idle" /\ wd_c.valid)

(***************************************************************************)
(* Responses of an unexpected shape.                                       *)
(***************************************************************************)
UnexpectedShape(resp) ==
    /\ resp.transport = "ok"
    /\ resp.status = HTTP_OK
    /\ resp.isJson
    /\ \/ ~resp.body.testable
       \/ ~resp.body.hasStation
       \/ ~resp.body.stationIsList
       \/ resp.body.stations = <<>>
       \/ ~resp.body.stations[1].isObject
       \/ resp.body.stations[1].obsKind = "absent"

\* C16: when the decoded response has no STATION, a STATION that is not a
\* list, an empty STATION list or a first STATION element without
\* OBSERVATIONS, the shape is reported (by weather_data's error value or by
\* the table's message), the table and the chart both show a diagnostic,
\* no variable column is built and no exception leaves weather_data,
\* parsed_data or a render.
C16_UnexpectedShape ==
    (wd_c.valid /\ UnexpectedShape(wd_c.resp))
    => (/\ ~wd_c.value.raised
        /\ pd_c.valid
             => /\ pd_c.value.kind # "raised"
                /\ NonTimeCols(pd_c.value.df) = <<>>
                /\ pd_c.value.df.rows = <<>>
        /\ plot_out.valid => plot_out.value = PlotText("No data available")
        /\ table_out.valid
             => /\ table_out.value.kind = "error"
                /\ table_out.value.table = EmptyDF
                /\ \/ wd_c.value = ErrorDict("Unexpected API response format.", 0)
                   \/ table_out.value.msg = "Unexpected API response format.")

(***************************************************************************)
(* Fetches in flight.                                                      *)
(***************************************************************************)
\* C17: never are two weather GETs in flight; while one is in flight the
\* parameters the server computes with do not change and the fetch is not
\* cancelled (it stays in flight or returns and its result is stored for
\* the request it was made for); a GET is entered only when none is in
\* flight and the thread is free.
C17_OneFetchOutstanding ==
    /\ [](inflight <= 1 /\ (pc \in {"get", "hung"} <=> inflight = 1))
    /\ [][pc = "get"
            => /\ UNCHANGED <<station, vars, date_range, url_c>>
               /\ \/ pc' \in {"get", "hung"} /\ inflight' = inflight
                  \/ /\ pc' = "idle"
                     /\ inflight' = 0
                     /\ wd_c'.valid
                     /\ wd_c'.req = url_c.value]_vars_all
    /\ [][inflight' > inflight => (inflight = 0 /\ pc = "idle")]_vars_all

C17_Witness ==
    /\ pc = "get"
    /\ waiting
    /\ inflight = 1
    /\ caller = "table"
    /\ outcome.kind = "response"
    /\ vars = <<"air_temp", "soil_moisture">>
    /\ date_range.ends = <<DateEnd(207), DateEnd(206)>>

(***************************************************************************)
(* The order of the normalized variables.                                  *)
(***************************************************************************)
(* the requested list, and the part of it the response reports *)
RequestedList == IF h_vars = <<>> THEN <<"air_temp">> ELSE h_vars

PresentRequested ==
    SelectSeq(RequestedList, LAMBDA v : (v \o "_set_1") \in DOMAIN h_obs.series)

(* the chart's variables are the first two present requested ones *)
PlotsFirstTwoPresent ==
    /\ h_plot.primary =
         IF Len(PresentRequested) >= 1 THEN PresentRequested[1] ELSE ""
    /\ h_plot.secondary =
         IF Len(PresentRequested) >= 2 THEN PresentRequested[2] ELSE ""

\* C18 as stated: the non-Time columns parsed_data hands to the chart are
\* the requested variables in the caller's order, restricted to those
\* whose '<v>_set_1' key the response reports; hence the chart's primary
\* and secondary variables are the first two of them.
C18_NormalizerOrder ==
    h_pc \in {"normalized", "selected"}
    => (/\ h_parsed.kind = "df"
        /\ NonTimeCols(h_parsed.df) = PresentRequested
        /\ h_pc = "selected" => PlotsFirstTwoPresent)

\* C18 amended: the non-Time columns parsed_data hands to the chart are
\* the requested variables in the caller's order, restricted to those
\* whose '<v>_set_1' key the response reports; when the frame has at least
\* one row the chart's primary and secondary variables are the first two
\* of them, and when it has none the chart shows 'No data available' and
\* plots no variable.
C18_NormalizerOrderOfNonEmptyFrame ==
    h_pc \in {"normalized", "selected"}
    => (/\ h_parsed.kind = "df"
        /\ NonTimeCols(h_parsed.df) = PresentRequested
        /\ h_pc = "selected"
             => IF h_parsed.df.rows # <<>> THEN PlotsFirstTwoPresent
                ELSE h_plot = PlotText("No data available"))

C18_Witness ==
    /\ h_pc = "selected"
    /\ h_vars = <<"wind_speed", "soil_moisture", "air_temp">>
    /\ DOMAIN h_obs.series = {"air_temp_set_1", "wind_speed_set_1"}
    /\ Len(h_obs.date_time) = 2
    /\ NonTimeCols(h_parsed.df) = <<"wind_speed", "air_temp">>
    /\ h_plot.kind = "dual"
    /\ h_plot.primary = "wind_speed"
    /\ h_plot.secondary = "air_temp"

(***************************************************************************)
(* The range of a request.                                                 *)
(***************************************************************************)
UsableDescriptor(v) ==
    LET d == DescriptorOf(v)
    IN  d.stid # "" /\ d.start # NaT /\ d.end # NaT /\ d.start <= d.end

\* C19: every request URL that url returns, and so every GET that is
\* issued, has a non-empty station and a start and an end with
\* start <= end.
C19_UsableRange ==
    /\ (url_c.valid /\ url_c.value # <<>>) => UsableDescriptor(url_c.value)
    /\ pc \in {"get", "hung"} => UsableDescriptor(url_c.value)
    /\ (wd_c.valid /\ wd_c.req # <<>>) => UsableDescriptor(wd_c.req)

(***************************************************************************)
(* Submitting feedback again.                                              *)
(***************************************************************************)
(* the submit being handled ended as Empty, Succeeded or Failed *)
Terminal ==
    /\ AttemptEnded
    /\ \/ feedback_status = StatusEmpty
       \/ outcome.kind # "none"

\* C20: in every terminal state of the form (Empty, Succeeded, Failed),
\* once the server has finished its flush, a click is accepted: it ends as
\* Empty when the stripped text is empty and enters requests.post
\* otherwise; a submit step never does anything else; and every submission
\* in flight is followed by a terminal state in which the form accepts the
\* next click.
C20_FeedbackReentry ==
    /\ []((Terminal /\ Quiescent)
            => IF Strip(feedback_text) = <<>>
               THEN ENABLED SubmitEmpty /\ ~ENABLED SubmitPost
               ELSE ENABLED SubmitPost /\ ~ENABLED SubmitEmpty)
    /\ [][/\ (pc = "idle" /\ pc' = "post")
               => (/\ Strip(feedback_text) # <<>>
                   /\ attempt'.active
                   /\ posted' = <<Payload(Strip(feedback_text))>>)
          /\ (pc = "idle" /\ pc' = "idle" /\ attempt'.active /\ attempt' # attempt)
               => (/\ Strip(feedback_text) = <<>>
                   /\ feedback_status' = StatusEmpty
                   /\ posted' = <<>>)]_vars_all
    /\ (pc = "post") ~> (Terminal /\ Quiescent /\ outcome.kind # "none")
====
